---- MODULE Spec2Model ----
(***************************************************************************)
(* living-room-bot: the presence debounce (on_voice_state_update,          *)
(* check_debounce) and the notification janitor                            *)
(* (clean_up_old_notifications) of src/living_room_bot/main.py.            *)
(*                                                                         *)
(* Time is a whole number of seconds.  The voice channels, the text        *)
(* channel's history and the scheduler's job store are the state; the      *)
(* gateway's answers (does the text channel resolve, does a send or a      *)
(* delete succeed) are inputs of the actions.                              *)
(***************************************************************************)
EXTENDS Integers, Sequences, FiniteSets, TLC

\* ------------------------------------------------------------------ bounds
NMembers == 2        \* members of the guild who use voice channels
MaxTime == 2         \* the clock runs from 0 to MaxTime
MaxJobs == 2         \* debounce checks scheduled in one run
MaxMsgs == 3         \* no message is created once this many ever existed
MaxInitMsgs == 3     \* messages found in the text channel at start-up
MaxAge == 2          \* age of the oldest message found at start-up

\* The scan cap: the limit of history(limit=1000, ...), main.py line 71.
ScanCap == 1000

MaxSkew == 2         \* seconds between the two clock readings of a pass

\* --------------------------------------------------------------- universe
Members == 1..NMembers
LivingRoom == "living_room"      \* the channel whose id is self._voice_id
Kitchen == "kitchen"             \* any other voice channel
NoChannel == "none"              \* VoiceState.channel is None
Channels == {LivingRoom, Kitchen}
Bot == "bot"                     \* self.user
Stranger == "stranger"           \* any other author
Authors == {Bot, Stranger}

\* run()'s options message_gc_after, message_gc_horizon and debounce_period,
\* in seconds: the configurations considered.
Configs ==
    { [gc_after |-> 0, gc_horizon |-> 2, debounce_period |-> 1],
      [gc_after |-> 1, gc_horizon |-> 3, debounce_period |-> 2],
      [gc_after |-> 2, gc_horizon |-> 2, debounce_period |-> 1] }

\* run()'s option message_gc_frequency, in seconds.
message_gc_frequency == 1

VARIABLES
    now,              \* datetime.datetime.now(tz=utc), in seconds
    voice,            \* voice[m]: the voice channel member m is in, or NoChannel
    jobs,             \* the scheduler's pending date-trigger jobs (check_debounce)
    nextJob,          \* number of jobs scheduled so far
    msgs,             \* the messages in the text channel
    nextMsg,          \* number of messages created so far (ids grow with time)
    cfg,              \* self._gc_after, self._gc_horizon, self._debounce_period
    departed,         \* ids of the pending jobs whose member has left since
    sched,            \* the scheduler's job store: its interval-trigger jobs
    undeleted,        \* messages still there whose delete() has raised
    sending,          \* the check_debounce coroutines waiting in send()
    gc,               \* the janitor pass that is running: where it stands
                      \* in clean_up_old_notifications, and its locals
    last              \* the operation that ran last, with what it observed

vars == <<now, voice, jobs, nextJob, msgs, nextMsg, cfg, departed, sched,
          undeleted, sending, gc, last>>

\* ---------------------------------------------------------------- helpers
\* channel.members of a voice channel
ChannelMembers(v, c) == { m \in Members : v[m] = c }

\* Faulty variants of the membership test: one that always passes, and one
\* that reads the wrong channel.
IsMember_always(v, m, c) == TRUE
IsMember_other(v, m, c) == m \in ChannelMembers(v, Kitchen)

\* `member in channel.members`, check_debounce
\* Faulty variant of IsMember: the member counts as present only if they
\* have not left the channel while a check for them was pending.
IsMember_stayed(v, m, c) ==
    /\ m \in ChannelMembers(v, c)
    /\ \A j \in jobs : j.member = m => j.id \notin departed

IsMember(v, m, c) == m \in ChannelMembers(v, c)

\* The text of the notification: an f-string with no replacement field, so
\* the set of members it refers to is empty.
NotificationText == "Someone's in the living room!"
NotificationMentions == {}

NewMessage(id, author, at, text, mentions) ==
    [id |-> id, author |-> author, created_at |-> at,
     text |-> text, mentions |-> mentions]

\* ------------------------------------------------------------------- Init
\* Messages found in the channel at start-up (notifications of an earlier
\* run, other people's messages): ids 1..k in order of creation.
InitHistories ==
    UNION { { h \in [1..k -> Authors \X (0 - MaxAge..0)] :
                \A i \in 1..k : \A j \in 1..k :
                    i < j => h[i][2] <= h[j][2] } : k \in 0..MaxInitMsgs }

InitMsgs(h) ==
    { NewMessage(i, h[i][1], h[i][2],
                 IF h[i][1] = Bot THEN NotificationText ELSE "chat", {}) :
        i \in DOMAIN h }

\* make_scheduler(): a scheduler over a new, empty MemoryJobStore.
make_scheduler == <<>>

\* sched.add_job(func, trigger, id=id) on a running scheduler, without
\* replace_existing: the job is added to the store unless a job of that id
\* is in it, and then the call raises ConflictingIdError and the store stays
\* as it was.
HasJobId(store, id) == \E i \in DOMAIN store : store[i].id = id
add_job(store, func, seconds, id) ==
    IF HasJobId(store, id) THEN store
    ELSE Append(store, [id |-> id, func |-> func, seconds |-> seconds])

\* Faulty variant of run(): the job is added to the job store of the run
\* before, whatever that store holds.
RegisterJanitor_accumulating(store) ==
    Append(store, [id |-> "periodic_garbage_collect",
                   func |-> "clean_up_old_notifications",
                   seconds |-> message_gc_frequency])

\* Lines 164 and 173-180 of run(): the scheduler is made and the janitor is
\* registered under its fixed id.  `store` is the job store of the run
\* before, which a new process does not see.
RegisterJanitor(store) ==
    add_job(make_scheduler, "clean_up_old_notifications",
            message_gc_frequency, "periodic_garbage_collect")

\* No janitor pass is running.  While one runs, gc holds where the coroutine
\* stands (pc), its locals start_time and cutoff (gc_horizon in the source),
\* the place of the history iterator (the id of the message it gave last,
\* and what is left of its limit) and the message being deleted (cur).  The
\* other fields record, for the properties, what the pass has done: the
\* messages it was given (fetched), deleted (removed) and tried again
\* (retried); whether its window held more than the scan cap (truncated);
\* whether it began right after an undisturbed error-free pass with the
\* same clock readings (follows: the number that pass deleted, else -1),
\* whether that pass saw its whole window (sawAll) and which deletable
\* window messages that pass was not given (leftover); what it would
\* delete if it ran alone (alone); whether no other step has come between
\* its steps (solo).
Idle ==
    [pc |-> "idle", start_time |-> 0, cutoff |-> 0, after |-> 0, left |-> 0,
     cur |-> {}, fetched |-> {}, removed |-> {}, retried |-> {},
     truncated |-> FALSE, follows |-> 0 - 1, sawAll |-> FALSE,
     leftover |-> {}, alone |-> {}, solo |-> TRUE]

\* The client after run() has built it: nobody in a voice channel yet, no
\* debounce check scheduled.
InitClient ==
    /\ now = 0
    /\ voice = [m \in Members |-> NoChannel]
    /\ jobs = {}
    /\ nextJob = 0
    /\ cfg \in Configs
    /\ departed = {}
    /\ sched = RegisterJanitor(<<>>)
    /\ undeleted = {}
    /\ sending = {}
    /\ gc = Idle
    /\ last = [op |-> "init"]

\* Start-up with an empty text channel.
Init ==
    /\ InitClient
    /\ msgs = {}
    /\ nextMsg = 0

\* Start-up with any history in the text channel.
InitJanitor ==
    /\ InitClient
    /\ \E h \in InitHistories : msgs = InitMsgs(h) /\ nextMsg = Len(h)

\* Backlogs found in the text channel at start-up, all written in the second
\* before: no message of other people, one, or as many as the scan cap, and
\* after them one notification of the bot, two, or one more than the scan cap.
Backlogs ==
    { [i \in 1..(n1 + n2) |-> <<IF i <= n1 THEN Stranger ELSE Bot, 0 - 1>>] :
        n1 \in {0, 1, ScanCap}, n2 \in {1, 2, ScanCap + 1} }

\* Start-up with a backlog in the text channel.
InitBacklog ==
    /\ InitClient
    /\ \E h \in Backlogs : msgs = InitMsgs(h) /\ nextMsg = Len(h)

\* -------------------------------------------------- on_voice_state_update
\* Faulty variants of the three conditions: each dropped or loosened.
user_changed_channels_any(before, after) == TRUE
only_person_in_channel_nonempty(v, after) ==
    Cardinality(ChannelMembers(v, after)) >= 1
in_living_room_any(after) == TRUE

user_changed_channels(before, after) == after # before
only_person_in_channel(v, after) == Cardinality(ChannelMembers(v, after)) = 1
in_living_room(after) == after = LivingRoom

\* The handler's condition, lines 49-53.
Qualifies(v, before, after) ==
    /\ after # NoChannel
    /\ user_changed_channels(before, after)
    /\ only_person_in_channel(v, after)
    /\ in_living_room(after)

bounce_check_time == now + cfg.debounce_period

\* Member m's voice state changes to channel `after` (a join, a move, a leave,
\* or, with after = before, a mute/unmute); the gateway has updated the
\* channel's member list when the handler reads it.
\* Faulty variant of on_voice_state_update: the new check takes the place of
\* the checks that are pending for the same member.
on_voice_state_update_replacing(m, after) ==
    LET before == voice[m]
        v == [voice EXCEPT ![m] = after]
        q == Qualifies(v, before, after)
    IN  /\ ~(before = NoChannel /\ after = NoChannel)
        /\ q => nextJob < MaxJobs
        /\ voice' = v
        /\ jobs' = IF q
                   THEN { x \in jobs : x.member # m }
                        \cup { [id |-> nextJob + 1, member |-> m,
                                channel |-> after,
                                run_at |-> bounce_check_time] }
                   ELSE jobs
        /\ departed' = departed \cap { x.id : x \in jobs' }
        /\ nextJob' = IF q THEN nextJob + 1 ELSE nextJob
        /\ last' = [op |-> "voice", member |-> m, before |-> before,
                    after |-> after,
                    count |-> IF after = NoChannel THEN 0
                              ELSE Cardinality(ChannelMembers(v, after))]
        /\ UNCHANGED <<now, msgs, nextMsg, cfg, sched, undeleted, sending, gc>>

on_voice_state_update(m, after) ==
    LET before == voice[m]
        v == [voice EXCEPT ![m] = after]
        q == Qualifies(v, before, after)
        gone == { j.id : j \in { x \in jobs : x.member = m /\ before = x.channel
                                                /\ after # x.channel } }
    IN  /\ ~(before = NoChannel /\ after = NoChannel)
        /\ q => nextJob < MaxJobs
        /\ voice' = v
        /\ jobs' = IF q
                   THEN jobs \cup { [id |-> nextJob + 1, member |-> m,
                                     channel |-> after,
                                     run_at |-> bounce_check_time] }
                   ELSE jobs
        /\ departed' = departed \cup gone
        /\ nextJob' = IF q THEN nextJob + 1 ELSE nextJob
        /\ last' = [op |-> "voice", member |-> m, before |-> before,
                    after |-> after,
                    count |-> IF after = NoChannel THEN 0
                              ELSE Cardinality(ChannelMembers(v, after))]
        /\ UNCHANGED <<now, msgs, nextMsg, cfg, sched, undeleted, sending, gc>>

\* ------------------------------------------------------------------ clock
\* A second passes.  The scheduler runs a date-trigger job at its run time,
\* so the clock does not pass a job that is due.
Tick ==
    /\ now < MaxTime
    /\ \A j \in jobs : j.run_at > now
    /\ now' = now + 1
    /\ last' = [op |-> "tick"]
    /\ UNCHANGED <<voice, jobs, nextJob, msgs, nextMsg, cfg, departed, sched,
                   undeleted, sending, gc>>

\* ---------------------------------------------------------- text_channel
\* The property text_channel, lines 36-41: get_channel(self._text_id) answers
\* the channel (resolves = TRUE) or None, and None raises
\* ChannelNotFoundError.
text_channel(resolves) == IF resolves THEN "text" ELSE "ChannelNotFoundError"

\* --------------------------------------------------------- check_debounce
\* What `last` says of a run of check_debounce up to its await: the job,
\* whether its member had left the channel since the job was scheduled,
\* whether line 78 found the member in the channel, and whether and how the
\* coroutine ended there.
CheckStep(j, present, error) ==
    [op |-> "check", job |-> j, left |-> j.id \in departed,
     present |-> present, done |-> ~present \/ error # "none",
     error |-> error]

\* Faulty variant of check_debounce: the job stays in the job store after it
\* has run, as a job with a recurring trigger would.
check_debounce_recurring(j, resolves) ==
    LET present == IsMember(voice, j.member, j.channel)
        error == IF present /\ text_channel(resolves) = "ChannelNotFoundError"
                 THEN "ChannelNotFoundError" ELSE "none"
        awaits == present /\ error = "none"
    IN  /\ j \in jobs
        /\ j.run_at <= now
        /\ awaits => nextMsg + Cardinality(sending) < MaxMsgs
        /\ jobs' = jobs
        /\ departed' = departed
        /\ sending' = IF awaits
                      THEN sending \cup {[job |-> j, left |-> j.id \in departed]}
                      ELSE sending
        /\ last' = CheckStep(j, present, error)
        /\ UNCHANGED <<now, voice, nextJob, msgs, nextMsg, cfg, sched,
                       undeleted, gc>>

\* The scheduler runs job j at its run time and drops it from the job store
\* (a date trigger fires once).  Lines 78-79 up to the await: the membership
\* test, the text channel resolved, send() called; the coroutine then waits
\* for the gateway's answer.
check_debounce(j, resolves) ==
    LET present == IsMember(voice, j.member, j.channel)
        error == IF present /\ text_channel(resolves) = "ChannelNotFoundError"
                 THEN "ChannelNotFoundError" ELSE "none"
        awaits == present /\ error = "none"
    IN  /\ j \in jobs
        /\ j.run_at <= now
        /\ awaits => nextMsg + Cardinality(sending) < MaxMsgs
        /\ jobs' = jobs \ {j}
        /\ departed' = departed \ {j.id}
        /\ sending' = IF awaits
                      THEN sending \cup {[job |-> j, left |-> j.id \in departed]}
                      ELSE sending
        /\ last' = CheckStep(j, present, error)
        /\ UNCHANGED <<now, voice, nextJob, msgs, nextMsg, cfg, sched,
                       undeleted, gc>>

\* Faulty variant of send_answered: the new notification takes the place of
\* the notifications of the bot that are in the channel.
send_answered_superseding(c, sendOk) ==
    /\ c \in sending
    /\ sending' = sending \ {c}
    /\ msgs' = IF sendOk
               THEN { x \in msgs : x.author # Bot }
                    \cup { NewMessage(nextMsg + 1, Bot, now, NotificationText,
                                      NotificationMentions) }
               ELSE msgs
    /\ nextMsg' = IF sendOk THEN nextMsg + 1 ELSE nextMsg
    /\ last' = [op |-> "send", job |-> c.job, left |-> c.left,
                error |-> IF sendOk THEN "none" ELSE "HTTPException"]
    /\ UNCHANGED <<now, voice, jobs, nextJob, cfg, departed, sched, undeleted,
                   gc>>

\* `await self.text_channel.send(...)`, line 79, answered: the gateway has
\* created the message (sendOk), at the time of the answer, or send() raises
\* and the exception leaves the coroutine.
send_answered(c, sendOk) ==
    /\ c \in sending
    /\ sending' = sending \ {c}
    /\ msgs' = IF sendOk
               THEN msgs \cup { NewMessage(nextMsg + 1, Bot, now,
                                           NotificationText,
                                           NotificationMentions) }
               ELSE msgs
    /\ nextMsg' = IF sendOk THEN nextMsg + 1 ELSE nextMsg
    /\ last' = [op |-> "send", job |-> c.job, left |-> c.left,
                error |-> IF sendOk THEN "none" ELSE "HTTPException"]
    /\ UNCHANGED <<now, voice, jobs, nextJob, cfg, departed, sched, undeleted,
                   gc>>

\* ----------------------------------------------- clean_up_old_notifications
\* The id of the limit-th oldest of the messages whose ids are `ids` (ids
\* grow with creation time): the least t of lo..hi that has `limit` of the
\* ids at or below it, found by halving lo..hi.
RECURSIVE LimitId(_, _, _, _)
LimitId(ids, limit, lo, hi) ==
    IF lo >= hi THEN lo
    ELSE LET mid == (lo + hi) \div 2
         IN  IF Cardinality({ i \in ids : i <= mid }) >= limit
             THEN LimitId(ids, limit, lo, mid)
             ELSE LimitId(ids, limit, mid + 1, hi)

\* The oldest message of a set that is not empty.
Oldest(S) ==
    LET ids == { m.id : m \in S }
        first == CHOOSE i \in ids : \A k \in ids : i <= k
    IN  CHOOSE m \in S : m.id = first

\* The `limit` oldest messages of a set.
OldestOf(window, limit) ==
    IF Cardinality(window) <= limit THEN window
    ELSE IF limit <= 0 THEN {}
    ELSE LET ids == { m.id : m \in window }
             last_id == LimitId(ids, limit, 0, nextMsg)
         IN  { m \in window : m.id <= last_id }

\* Faulty variant of the window of the fetch: it takes in the message
\* created exactly at `after`.
CreatedAfter_inclusive(ms, after) == { m \in ms : m.created_at >= after }

\* history(after=after): the messages created after `after`.
CreatedAfter(ms, after) == { m \in ms : m.created_at > after }

\* text_channel.history(limit=limit, after=after): the messages created
\* after `after`, at most `limit` of them, the oldest; the iterator yields
\* them oldest first.
History(ms, limit, after) == OldestOf(CreatedAfter(ms, after), limit)

\* Lines 65-70 (the source names the second cutoff gc_horizon).  Each is
\* computed from its own reading of the clock.
start_time == now - cfg.gc_horizon
retain_cutoff == now - cfg.gc_after

\* Faulty variants of the condition: a non-strict comparison, and no author
\* test.
ShouldDelete_nonstrict(m, cutoff) == m.author = Bot /\ m.created_at <= cutoff
ShouldDelete_anyone(m, cutoff) == m.created_at < cutoff

\* The condition of line 72; cutoff is the local gc_horizon of the pass.
ShouldDelete(m, cutoff) == m.author = Bot /\ m.created_at < cutoff

\* Faulty variants of line 73: the message goes although delete() raised;
\* the loop goes on after a delete() that raised; the loop ends after its
\* first deletion.
DeleteOutcome_through(m, ok) ==
    [gone |-> {m}, then |-> IF ok THEN "continue" ELSE "raise"]
DeleteOutcome_skipping(m, ok) ==
    [gone |-> IF ok THEN {m} ELSE {}, then |-> "continue"]
DeleteOutcome_once(m, ok) ==
    IF ok THEN [gone |-> {m}, then |-> "return"]
    ELSE [gone |-> {}, then |-> "raise"]

\* `await message.delete()`, line 73: the message is gone and the loop goes
\* on, or the call raises, the message stays and the exception leaves the
\* loop and the coroutine.
DeleteOutcome(m, ok) ==
    IF ok THEN [gone |-> {m}, then |-> "continue"]
    ELSE [gone |-> {}, then |-> "raise"]

\* What a pass that begins now, reads the cutoff `cutoff` and runs to its
\* end undisturbed and without an error would delete.
DeletedAlone(cutoff) ==
    { m \in History(msgs, ScanCap, start_time) : ShouldDelete(m, cutoff) }

\* What `last` says of a step of the pass p (p as the step leaves it): the
\* step, whether the pass ended in it and how, and what the pass has done.
PassStep(p, step, done, error, failed) ==
    [op |-> "gc", step |-> step, done |-> done, error |-> error,
     failed |-> failed, start_time |-> p.start_time, cutoff |-> p.cutoff,
     fetched |-> p.fetched, removed |-> p.removed, retried |-> p.retried,
     truncated |-> p.truncated, follows |-> p.follows, sawAll |-> p.sawAll,
     leftover |-> p.leftover, alone |-> p.alone, solo |-> p.solo]

\* The pass p ends in this step.
PassEnds(p, step, error, failed) ==
    /\ gc' = Idle
    /\ last' = PassStep(p, step, TRUE, error, failed)

\* The pass goes on as p after this step.
PassGoesOn(p, step) ==
    /\ gc' = p
    /\ last' = PassStep(p, step, FALSE, "none", {})

\* Lines 65-71, up to the first await: the scheduler starts the coroutine
\* (it starts no second instance of a job while one is running), the clock
\* is read for start_time and read again, `skew` later, for the cutoff, and
\* the text channel is resolved.
clean_up_old_notifications(resolves, skew) ==
    LET after_last == /\ last.op = "gc" /\ last.done /\ last.error = "none"
                      /\ last.solo
                      /\ last.start_time = start_time
                      /\ last.cutoff = retain_cutoff'
        p == [pc |-> "fetch",
              start_time |-> start_time,
              cutoff |-> retain_cutoff',
              after |-> 0,
              left |-> ScanCap,
              cur |-> {}, fetched |-> {}, removed |-> {}, retried |-> {},
              truncated |-> Cardinality({ m \in msgs :
                                 m.created_at > start_time }) > ScanCap,
              follows |-> IF after_last THEN Cardinality(last.removed)
                          ELSE 0 - 1,
              sawAll |-> after_last /\ ~last.truncated,
              leftover |-> IF after_last
                           THEN { m \in msgs \ last.fetched :
                                    /\ m.created_at > start_time
                                    /\ ShouldDelete(m, retain_cutoff') }
                           ELSE {},
              alone |-> DeletedAlone(retain_cutoff'),
              solo |-> TRUE]
    IN  /\ gc.pc = "idle"
        /\ \E i \in DOMAIN sched : sched[i].func = "clean_up_old_notifications"
        /\ skew > 0 => now + skew <= MaxTime
        /\ now' = now + skew
        /\ UNCHANGED <<voice, jobs, nextJob, msgs, nextMsg, cfg, departed,
                       sched, undeleted, sending>>
        /\ IF text_channel(resolves) = "ChannelNotFoundError"
           THEN PassEnds([p EXCEPT !.alone = {}, !.leftover = {}], "begin",
                         "ChannelNotFoundError", {})
           ELSE PassGoesOn(p, "begin")

\* `async for message in ...history(limit=1000, after=start_time)`, line 71:
\* the coroutine waits for the next message of the history, the oldest
\* message after start_time that it has not had yet, while the limit
\* lasts.  The request may fail.  Line 72 is applied to the message
\* at once.
history_next(fetchOk) ==
    LET page == IF gc.left = 0 THEN {}
                ELSE CreatedAfter({ m \in msgs : m.id > gc.after },
                                  gc.start_time)
        solo == gc.solo /\ last.op = "gc"
    IN  /\ gc.pc = "fetch"
        /\ ~fetchOk => gc.left > 0
        /\ IF ~fetchOk
           THEN PassEnds([gc EXCEPT !.solo = solo], "next", "HTTPException", {})
           ELSE IF page = {}
           THEN PassEnds([gc EXCEPT !.solo = solo], "next", "none", {})
           ELSE LET m == Oldest(page)
                IN  PassGoesOn([gc EXCEPT
                        !.pc = IF ShouldDelete(m, gc.cutoff)
                               THEN "delete" ELSE "fetch",
                        !.cur = IF ShouldDelete(m, gc.cutoff) THEN {m} ELSE {},
                        !.after = m.id,
                        !.left = gc.left - 1,
                        !.fetched = gc.fetched \cup {m},
                        !.solo = solo], "next")
        /\ UNCHANGED <<now, voice, jobs, nextJob, msgs, nextMsg, cfg, departed,
                       sched, undeleted, sending>>

\* `await message.delete()`, line 73, for the message that line 72 chose.
message_delete(ok) ==
    LET m == CHOOSE x \in gc.cur : TRUE
        out == DeleteOutcome(m, ok)
        p == [gc EXCEPT !.pc = "fetch", !.cur = {},
                        !.removed = gc.removed \cup out.gone,
                        !.retried = gc.retried \cup (undeleted \cap {m}),
                        !.solo = gc.solo /\ last.op = "gc"]
    IN  /\ gc.pc = "delete"
        /\ msgs' = msgs \ out.gone
        /\ undeleted' = (undeleted \ out.gone)
                           \cup (IF ok THEN {} ELSE {m} \ out.gone)
        /\ IF out.then = "raise"
           THEN PassEnds(p, "delete", "HTTPException", {m})
           ELSE IF out.then = "return"
           THEN PassEnds(p, "delete", "none", {})
           ELSE PassGoesOn(p, "delete")
        /\ UNCHANGED <<now, voice, jobs, nextJob, nextMsg, cfg, departed, sched,
                       sending>>

\* A step of the janitor.
Janitor ==
    \/ \E resolves \in BOOLEAN : \E skew \in 0..MaxSkew :
          clean_up_old_notifications(resolves, skew)
    \/ \E fetchOk \in BOOLEAN : history_next(fetchOk)
    \/ \E ok \in BOOLEAN : message_delete(ok)

\* ------------------------------------------------------------ environment
\* Somebody else posts in the text channel.
Post ==
    /\ nextMsg < MaxMsgs
    /\ msgs' = msgs \cup { NewMessage(nextMsg + 1, Stranger, now, "chat", {}) }
    /\ nextMsg' = nextMsg + 1
    /\ last' = [op |-> "post"]
    /\ UNCHANGED <<now, voice, jobs, nextJob, cfg, departed, sched, undeleted,
                   sending, gc>>

\* A step of a debounce check: the scheduler runs a due job, or a send()
\* is answered.
Fire ==
    \E j \in jobs : \E resolves \in BOOLEAN : check_debounce(j, resolves)

Answer ==
    \E c \in sending : \E sendOk \in BOOLEAN : send_answered(c, sendOk)

Next ==
    \/ \E m \in Members : \E c \in Channels \cup {NoChannel} :
          on_voice_state_update(m, c)
    \/ Fire
    \/ Answer
    \/ Janitor
    \/ Tick

\* The bot on a server whose text channel starts empty and where nobody else
\* writes.
Spec == Init /\ [][Next]_vars

\* The debounce side alone: voice-state updates and the scheduler, which runs
\* every job of a date trigger once its time has come (the clock goes on and
\* a due job is run).
NextPresence ==
    \/ \E m \in Members : \E c \in Channels \cup {NoChannel} :
          on_voice_state_update(m, c)
    \/ Fire
    \/ Answer
    \/ Tick

SpecPresence ==
    Init /\ [][NextPresence]_vars /\ WF_vars(Tick) /\ WF_vars(Fire)

\* The janitor alone, on a text channel with any history.
NextJanitor ==
    \/ Janitor
    \/ Post
    \/ Tick

SpecJanitor == InitJanitor /\ [][NextJanitor]_vars

\* The janitor alone, on a text channel that holds a backlog, with the
\* gateway answering every request and the clock standing while a pass runs.
NextBacklog ==
    \/ clean_up_old_notifications(TRUE, 0)
    \/ history_next(TRUE)
    \/ message_delete(TRUE)
    \/ gc.pc = "idle" /\ Tick

SpecBacklog == InitBacklog /\ [][NextBacklog]_vars

\* run() once more, in a new process: the client is built from the options
\* of this invocation, the scheduler and its job store are made anew (the
\* debounce checks that were pending or waiting in send() and a pass that
\* was running are gone with the old process) and the janitor is
\* registered.  The server and its text channel are as they were.
run ==
    /\ cfg' \in Configs
    /\ sched' = RegisterJanitor(sched)
    /\ jobs' = {}
    /\ departed' = {}
    /\ sending' = {}
    /\ gc' = Idle
    /\ last' = [op |-> "run"]
    /\ UNCHANGED <<now, voice, nextJob, msgs, nextMsg, undeleted>>

\* The janitor over restarts of the process.
NextRestart ==
    \/ NextJanitor
    \/ run

SpecRestart == InitJanitor /\ [][NextRestart]_vars

\* =================================================================== claims
\* A step that runs check_debounce / on_voice_state_update / a janitor pass
\* is a step whose `last'` names that operation: every action writes `last`.
JobIds(js) == { j.id : j \in js }

\* A send() in flight, as `sending` holds it, for the run of check_debounce
\* that `last` tells of.
SendOf(l) == [job |-> l.job, left |-> l.left]

\* ----------------------------------------------------------------------- C1
\* C1 as stated: the send of a check whose member left the channel after the
\* join that scheduled it creates no notification, whatever happened in
\* between.
C1_NoNotificationAfterLeaving ==
    [][ (last'.op = "send" /\ last'.left) => msgs' = msgs ]_vars

\* C1, amended: a check whose member left the channel after the join that
\* scheduled it and is not a member of the channel when the check fires
\* sends nothing: it ends there without an error, no send() is begun for it,
\* and a notification comes only from a send() that a check began with its
\* member in the channel.
C1_NoNotificationWhenAbsent ==
    [][ /\ (last'.op = "check" /\ last'.left
               /\ voice[last'.job.member] # last'.job.channel)
           => /\ msgs' = msgs
              /\ sending' = sending
              /\ last'.done
              /\ last'.error = "none"
        /\ \A c \in sending' \ sending :
              /\ last'.op = "check"
              /\ c = SendOf(last')
              /\ voice[c.job.member] = c.job.channel
        /\ \A n \in msgs' \ msgs :
              /\ last'.op = "send"
              /\ SendOf(last') \in sending \ sending' ]_vars

\* A check has fired for a member who joined alone, left and stayed away.
C1_Witness ==
    /\ last.op = "check"
    /\ last.left
    /\ last.done
    /\ voice[last.job.member] # LivingRoom
    /\ last.job.channel = LivingRoom
    /\ sending = {}
    /\ msgs = {}

\* ----------------------------------------------------------------------- C2
\* C2 as stated: a check whose member is in the channel when it fires (and
\* whose send the gateway accepts) adds exactly one notification, and the
\* notification refers to that member.
C2_OneNotificationNamingMember ==
    [][ (last'.op = "send" /\ last'.error = "none")
        => \E n \in msgs' \ msgs :
              /\ msgs' = msgs \cup {n}
              /\ n.author = Bot
              /\ last'.job.member \in n.mentions ]_vars

\* C2, amended: a check whose member is in the channel when it fires (the
\* text channel resolving) is consumed and begins one send(); when the
\* gateway accepts the send, exactly one notification is added, created at
\* the time of that answer and not before the check's run time, with the
\* fixed text, which refers to no member; the send is over and adds nothing
\* again.
C2_OneAnonymousNotification ==
    [][ /\ (last'.op = "check" /\ last'.error = "none"
               /\ voice[last'.job.member] = last'.job.channel)
           => /\ sending' = sending \cup {SendOf(last')}
              /\ SendOf(last') \notin sending
              /\ msgs' = msgs
              /\ last'.job.id \notin JobIds(jobs')
        /\ (last'.op = "send")
           => /\ SendOf(last') \in sending
              /\ sending' = sending \ {SendOf(last')}
              /\ last'.error # "none" => msgs' = msgs
        /\ (last'.op = "send" /\ last'.error = "none")
           => \E n \in msgs' \ msgs :
                 /\ msgs' = msgs \cup {n}
                 /\ n.author = Bot
                 /\ n.created_at = now
                 /\ n.created_at >= last'.job.run_at
                 /\ n.text = "Someone's in the living room!"
                 /\ n.mentions = {} ]_vars

\* The send of a check that fired with its member in the living room has
\* been answered, and the notification is in the text channel; the member
\* has left in the meantime.
C2_Witness ==
    /\ last.op = "send"
    /\ last.error = "none"
    /\ voice[last.job.member] # LivingRoom
    /\ ~last.left
    /\ \E n \in msgs : n.author = Bot /\ n.created_at = now
                          /\ n.created_at > last.job.run_at

\* ----------------------------------------------------------------------- C3
\* C3: a transition whose after-channel does not hold exactly one member
\* schedules no check, whatever the channels before and after.
C3_SoleOccupantGate ==
    [][ (last'.op = "voice" /\ last'.count # 1) => jobs' = jobs ]_vars

\* A member has joined the living room as its second occupant.
C3_Witness ==
    /\ last.op = "voice"
    /\ last.after = LivingRoom
    /\ last.before # LivingRoom
    /\ last.count = 2
    /\ \A j \in jobs : j.member # last.member

\* ----------------------------------------------------------------------- C4
\* C4: a transition from the living room to the living room (mute, unmute)
\* schedules no check, even for the only occupant.
C4_SameChannelNoOp ==
    [][ (last'.op = "voice" /\ last'.before = LivingRoom
            /\ last'.after = LivingRoom) => jobs' = jobs ]_vars

\* The only occupant of the living room has had a same-channel update, and no
\* check is pending.
C4_Witness ==
    /\ last.op = "voice"
    /\ last.before = LivingRoom
    /\ last.after = LivingRoom
    /\ last.count = 1
    /\ jobs = {}

\* ----------------------------------------------------------------------- C5
\* C5: a check is scheduled only by a transition whose after-channel is the
\* living room; a transition into another channel, or out of every channel,
\* schedules none.
C5_TargetChannelGate ==
    [][ /\ (JobIds(jobs') \ JobIds(jobs) # {})
            => (last'.op = "voice" /\ last'.after = LivingRoom)
        /\ (last'.op = "voice" /\ last'.after # LivingRoom)
            => jobs' = jobs ]_vars

\* A member has entered the other channel as its only occupant, and no check
\* is pending.
C5_Witness ==
    /\ last.op = "voice"
    /\ last.after = Kitchen
    /\ last.before # Kitchen
    /\ last.count = 1
    /\ jobs = {}

\* ------------------------------------------------------- janitor vocabulary
\* A pass reads the clock twice: start_time is the first reading less the
\* lookback horizon, cutoff the second less retain_after.  gc holds them
\* while the pass runs, and `last` after each of its steps.  A pass has
\* ended where last.done holds.
PassEnded == last.op = "gc" /\ last.done
PassEndedWell == PassEnded /\ last.error = "none"

\* The message the step evaluates: the one the history iterator hands over.
Evaluated == gc'.fetched \ gc.fetched

\* ----------------------------------------------------------------------- C6
\* C6: with `now` the reading of the clock the pass takes for its cutoff, a
\* bot message the pass evaluates is left alone when it was created exactly
\* at now - retain_after and is deleted next (the gateway willing) when it
\* was created one second earlier; whatever a pass deletes is a bot message
\* created before now - retain_after.
C6_RetentionBoundary ==
    [][ /\ (last'.op = "gc" /\ last'.step = "begin")
           => last'.cutoff = now' - cfg.gc_after
        /\ \A m \in Evaluated :
              m.author = Bot =>
                /\ m.created_at = gc.cutoff
                      => gc'.pc = "fetch" /\ gc'.cur = {} /\ m \in msgs'
                /\ m.created_at = gc.cutoff - 1
                      => gc'.pc = "delete" /\ gc'.cur = {m}
        /\ (gc.pc = "delete" /\ last'.op = "gc" /\ last'.error = "none")
           => gc.cur # {} /\ msgs' = msgs \ gc.cur
        /\ \A m \in msgs \ msgs' :
              m.author = Bot /\ m.created_at < gc.cutoff ]_vars

\* A pass has evaluated two bot messages, one created exactly at its cutoff,
\* which is still there, and one a second older, which it deleted.
C6_Witness ==
    /\ PassEndedWell
    /\ last.cutoff = now - cfg.gc_after
    /\ \E m \in msgs \cap last.fetched :
          m.author = Bot /\ m.created_at = last.cutoff
    /\ \E r \in last.removed \ msgs : r.created_at = last.cutoff - 1

\* ----------------------------------------------------------------------- C7
\* C7: no step of the bot removes a message written by somebody else.
C7_ForeignAuthorExclusion ==
    [][ \A m \in msgs \ msgs' : m.author = Bot ]_vars

\* A pass has deleted a notification and left in place a message of somebody
\* else that it evaluated and that is older than the retention cutoff.
C7_Witness ==
    /\ PassEndedWell
    /\ last.removed # {}
    /\ \E m \in msgs \cap last.fetched :
          m.author = Stranger /\ m.created_at < last.cutoff

\* ----------------------------------------------------------------------- C8
\* C8 as stated: a pass that begins right after a pass (the same clock
\* readings, nothing else in between, no error in either) deletes nothing.
C8_SecondPassDeletesNothing ==
    [][ (last'.op = "gc" /\ last'.done /\ last'.error = "none"
            /\ last'.follows >= 0 /\ last'.solo)
        => last'.removed = {} ]_vars

\* C8, amended: a pass that begins right after a pass deletes nothing,
\* provided the first pass saw the whole lookback window, that is, the
\* window held at most the scan cap of messages; and, whatever the window
\* held, it deletes nothing when the first pass deleted nothing.
C8_SecondPassDeletesNothingWithinCap ==
    [][ /\ (last'.op = "gc" /\ last'.done /\ last'.error = "none"
               /\ last'.follows >= 0 /\ last'.solo /\ last'.sawAll)
           => last'.removed = {} /\ last'.alone = {}
        /\ (last'.op = "gc" /\ last'.done /\ last'.error = "none"
               /\ last'.follows = 0 /\ last'.solo)
           => last'.removed = {} ]_vars

\* A pass has followed a pass that deleted a message and saw its whole
\* window, and has itself found nothing to delete among the messages it
\* evaluated.
C8_Witness ==
    /\ PassEndedWell
    /\ last.solo
    /\ last.follows >= 1
    /\ last.sawAll
    /\ last.fetched # {}
    /\ last.removed = {}

\* ----------------------------------------------------------------------- C9
\* C9 as stated: when the window held more deletable messages than the scan
\* cap, so that a pass left some of them unevaluated, the pass that begins
\* right after it (the same clock readings, no error in either) evaluates
\* and deletes at least one of those left over.
C9_LeftoversDeletedByNextPass ==
    [][ (last'.op = "gc" /\ last'.done /\ last'.error = "none"
            /\ last'.follows >= 0 /\ last'.solo)
        => (Cardinality(last'.leftover) + last'.follows > ScanCap
              => last'.leftover \cap last'.removed # {}) ]_vars

\* C9, what the code does: a pass is handed the oldest messages of the
\* lookback window, at most the scan cap of them, and deletes no other.
\* Messages a pass leaves in place keep their place in the scan, so deletable
\* messages behind them are reached only when those have left the window.
C9_ScanBound ==
    [][ /\ Cardinality(gc'.fetched) <= ScanCap
        /\ gc'.removed \subseteq gc'.fetched
        /\ (last'.op = "gc")
             => /\ Cardinality(last'.fetched) <= ScanCap
                /\ last'.removed \subseteq last'.fetched
                /\ \A m \in last'.fetched : m.created_at > last'.start_time
        /\ (last'.op = "gc" /\ last'.done /\ last'.error = "none"
               /\ last'.solo)
             => last'.removed = last'.alone ]_vars

\* A pass has deleted as many messages as the scan cap allows, and a
\* deletable message that it was not handed is still in its window.
C9_ScanBoundWitness ==
    /\ PassEndedWell
    /\ last.truncated
    /\ Cardinality(last.removed) = ScanCap
    /\ \E m \in msgs \ last.fetched :
          /\ m.created_at > last.start_time
          /\ m.author = Bot
          /\ m.created_at < last.cutoff

\* ---------------------------------------------------------------------- C10
\* C10 as stated: no step removes a message created at or before now -
\* lookback horizon, and when retain_after >= lookback_horizon no step
\* removes any message.
C10_LookbackHorizon ==
    [][ /\ \A m \in msgs \ msgs' : m.created_at > now - cfg.gc_horizon
        /\ cfg.gc_after >= cfg.gc_horizon => msgs \subseteq msgs' ]_vars

\* C10, amended: the lookback window is fixed when the pass begins.  A pass
\* deletes no message created at or before its start_time, the first reading
\* of the clock less the lookback horizon, and none created at or after its
\* cutoff, the second reading less retain_after; so it deletes nothing when
\* the cutoff is no later than start_time (retain_after >= lookback_horizon
\* and the two readings equal).  The clock goes on while the pass runs: a
\* message may be deleted when it is older than the lookback horizon.
C10_LookbackHorizonOfThePass ==
    [][ /\ (last'.op = "gc" /\ last'.step = "begin")
           => /\ last'.start_time = now - cfg.gc_horizon
              /\ last'.cutoff = now' - cfg.gc_after
              /\ now' >= now
        /\ \A m \in msgs \ msgs' :
              /\ gc.pc = "delete"
              /\ m.created_at > gc.start_time
              /\ m.created_at < gc.cutoff
        /\ (gc.pc # "idle" /\ gc.cutoff <= gc.start_time)
           => msgs \subseteq msgs' ]_vars

\* A pass has deleted a message that was older than the lookback horizon
\* when it was deleted.
C10_Witness ==
    /\ last.op = "gc"
    /\ last.step = "delete"
    /\ last.error = "none"
    /\ \E m \in last.removed \ msgs :
          /\ m.created_at <= now - cfg.gc_horizon
          /\ m.created_at > last.start_time

\* ---------------------------------------------------------------- C11
\* C11.  With passes recurring, retain_after below lookback_horizon and no
\* gateway failure, every notification of the bot is deleted in the end.  A
\* pass is handed no message that has left the lookback window, so the
\* claim needs this of every finite run: when an undisturbed error-free
\* pass has just found nothing to delete, however often it is repeated at
\* that clock reading, no notification of the bot drops out of the lookback
\* window at the next tick of the clock.  ScanCap foreign messages ahead of
\* a notification in the window break it (the starvation of C9).
C11_EveryNotificationDeletedBeforeHorizon ==
    [][ ( /\ cfg.gc_after < cfg.gc_horizon
          /\ PassEndedWell
          /\ last.solo
          /\ last.removed = {}
          /\ last.start_time = now - cfg.gc_horizon
          /\ last.cutoff = now - cfg.gc_after
          /\ last'.op = "tick" )
        => \A m \in msgs :
              (m.author = Bot /\ m.created_at > now - cfg.gc_horizon)
                 => m.created_at > now' - cfg.gc_horizon ]_vars

\* ---------------------------------------------------------------- C12
\* C12 as stated.  A message whose deletion failed stays in the channel, the
\* pass does not try it again, and the next pass does: once a pass has
\* ended without an error, no message whose deletion has failed is left.
\* Violated: the message can leave the lookback window first.
C12_FailedDeletionRetriedByEveryPass ==
    [][ /\ (last'.op = "gc" /\ last'.failed # {})
           => last'.done /\ last'.failed \subseteq msgs'
        /\ (last'.op = "gc" /\ last'.done /\ last'.error = "none")
           => undeleted' = {} ]_vars

\* C12, amended.  A message whose deletion failed stays in the channel
\* and the pass ends there, and every later pass that ends without an error
\* has deleted it if it was inside the lookback window of that pass.
C12_FailedDeletionRetriedWithinWindow ==
    [][ /\ (last'.op = "gc" /\ last'.failed # {})
           => /\ last'.done
              /\ last'.failed \subseteq msgs'
              /\ last'.failed \subseteq undeleted'
              /\ Cardinality(last'.failed) = 1
        /\ (last'.op = "gc" /\ last'.done /\ last'.error = "none")
           => \A m \in undeleted' : m.created_at <= last'.start_time ]_vars

\* A pass has deleted a message whose deletion had failed in a pass before.
C12_Witness ==
    /\ PassEndedWell
    /\ last.retried # {}
    /\ last.retried \subseteq last.removed
    /\ last.retried \cap msgs = {}

\* ---------------------------------------------------------------- C13
\* C13.  When the text channel does not resolve, a janitor pass and a
\* debounce check of a present member fail with ChannelNotFoundError, send
\* and delete nothing, and the error is fatal: the bot runs no further
\* debounce check or janitor pass after it.  Violated in its last part: the
\* error is raised out of the job, the scheduler that ran the job goes on,
\* and the next pass or check runs as if nothing had happened.
C13_ChannelNotFoundIsFatal ==
    [][ ( /\ last.op \in {"gc", "check"}
          /\ last.error = "ChannelNotFoundError" )
        => last'.op \notin {"gc", "check"} ]_vars

\* The part of C13 that holds: an operation that ends in ChannelNotFoundError
\* has sent nothing and deleted nothing.
C13_FailedResolutionHasNoEffect ==
    [][ ( /\ last'.op \in {"gc", "check"}
          /\ last'.error = "ChannelNotFoundError" )
        => msgs' = msgs /\ sending' = sending ]_vars

C13_FailedResolutionWitness ==
    /\ last.op = "check"
    /\ last.error = "ChannelNotFoundError"
    /\ voice[last.job.member] = last.job.channel

\* ---------------------------------------------------------------- C14
\* C14.  The janitor's recurring job is registered under the fixed id
\* "periodic_garbage_collect"; registering it again (a restart runs run()
\* again) leaves one such job, not two: in every reachable state the job
\* store holds at most one recurring janitor job.
JanitorJobs == { i \in DOMAIN sched : sched[i].id = "periodic_garbage_collect" }
C14_AtMostOneJanitorJob ==
    /\ Cardinality(JanitorJobs) <= 1
    /\ \A i \in DOMAIN sched : sched[i].func = "clean_up_old_notifications"
                                  => i \in JanitorJobs

\* run() has just registered the janitor a second time.
C14_Witness ==
    /\ last.op = "run"
    /\ Cardinality(JanitorJobs) = 1

\* ---------------------------------------------------------------- C15
\* C15.  Every scheduled debounce check fires in the end (the scheduler being
\* fair), and fires once: a job leaves the job store by its own firing only,
\* never by a later voice-state update; the firing removes it, its id is
\* never given to another job, it begins at most one send(), and a send()
\* adds at most one notification.  The clock of the model stops at MaxTime,
\* so the liveness part speaks of the jobs that are due by then.
DueJobs ==
    [id : 1..MaxJobs, member : Members, channel : Channels,
     run_at : 0..MaxTime]
C15_EveryCheckFiresOnce ==
    /\ [][ /\ \A j \in jobs \ jobs' : last'.op = "check" /\ last'.job = j
           /\ \A j \in jobs' \ jobs : j.id > nextJob /\ j.id <= nextJob'
           /\ (last'.op = "check")
                 => /\ last'.job \in jobs
                    /\ jobs' = jobs \ {last'.job}
                    /\ msgs' = msgs
                    /\ sending \subseteq sending'
                    /\ sending' \subseteq sending \cup {SendOf(last')}
           /\ (last'.op = "send")
                 => /\ sending' = sending \ {SendOf(last')}
                    /\ Cardinality(msgs' \ msgs) <= 1
                    /\ msgs \subseteq msgs' ]_vars
    /\ [](\A j \in jobs : j.id <= nextJob)
    /\ [](\A c \in sending : c.job \notin jobs /\ c.job.id <= nextJob)
    /\ \A j \in DueJobs :
          (j \in jobs) ~> (last.op = "check" /\ last.job = j /\ j \notin jobs)

\* A check has fired although its member had left the channel after the
\* check was scheduled: the departure did not cancel it.
C15_Witness ==
    /\ last.op = "check"
    /\ last.left
    /\ last.job \notin jobs
    /\ last.job.run_at = now

\* ---------------------------------------------------------------- C16
\* C16.  A member who joins the living room alone while a check for that
\* member is pending (joined alone, left, joined alone again within the
\* debounce window) gets a second check, and the first stays pending; each
\* of the two fires on its own, leaving the other pending, and begins its
\* own send() if the member is in the channel when it fires; each send()
\* the gateway accepts adds its own notification: two notifications if
\* the member is there both times.
C16_TwoChecksForOneMember ==
    [][ /\ ( /\ last'.op = "voice"
             /\ last'.after = LivingRoom
             /\ last'.before # LivingRoom
             /\ last'.count = 1
             /\ \E j \in jobs : j.member = last'.member )
          => /\ jobs \subseteq jobs'
             /\ \E k \in jobs' \ jobs :
                   /\ jobs' = jobs \cup {k}
                   /\ k.member = last'.member
                   /\ k.channel = LivingRoom
                   /\ k.run_at = now + cfg.debounce_period
        /\ ( /\ last'.op = "check"
             /\ \E k \in jobs \ {last'.job} : k.member = last'.job.member )
          => /\ jobs' = jobs \ {last'.job}
             /\ ( /\ voice[last'.job.member] = last'.job.channel
                  /\ last'.error = "none" )
                => /\ SendOf(last') \notin sending
                   /\ sending' = sending \cup {SendOf(last')}
        /\ (last'.op = "send" /\ last'.error = "none")
          => /\ jobs' = jobs
             /\ sending' = sending \ {SendOf(last')}
             /\ \E n \in msgs' \ msgs :
                   /\ msgs' = msgs \cup {n}
                   /\ n.author = Bot
                   /\ n.created_at = now ]_vars

\* Two checks were pending for one member and both have fired with the
\* member in the living room; the send of the second has been answered
\* after that of the first, and two notifications are in the channel.
C16_Witness ==
    /\ last.op = "send"
    /\ last.error = "none"
    /\ last.job.id = 2
    /\ jobs = {}
    /\ sending = {}
    /\ nextJob = 2
    /\ Cardinality({ n \in msgs : n.author = Bot }) = 2

\* ---------------------------------------------------------------- C17
\* C17.  The janitor and the debounce side write disjoint parts of the
\* state: a step of a janitor pass sends no message, schedules and cancels
\* no debounce check, leaves the sends in flight and the membership of the
\* voice channels alone; a voice-state update and a debounce check, up to
\* and with its send(), delete no message and leave the running pass as it
\* is.  So however the two are interleaved, each does what it would do
\* alone on the state it found: a pass that ends without an error has
\* deleted exactly what it would have deleted had it run undisturbed from
\* where it began, and a pass that fails has deleted nothing else.
C17_JanitorAndDebounceIndependent ==
    [][ /\ (last'.op = "gc")
          => /\ msgs' \subseteq msgs
             /\ nextMsg' = nextMsg
             /\ jobs' = jobs
             /\ departed' = departed
             /\ sending' = sending
             /\ voice' = voice
             /\ last'.removed \subseteq last'.alone
             /\ (last'.done /\ last'.error = "none")
                   => last'.removed = last'.alone
        /\ (last'.op \in {"voice", "check", "send"})
          => /\ msgs \subseteq msgs'
             /\ undeleted' = undeleted
             /\ gc' = gc
        /\ (last'.op \in {"voice", "check"}) => msgs' = msgs ]_vars

\* A pass has ended that deleted a notification, with steps of the debounce
\* side between its own, while a debounce check is pending and a member
\* sits in the living room.
C17_Witness ==
    /\ PassEndedWell
    /\ last.removed # {}
    /\ ~last.solo
    /\ jobs # {}
    /\ \E m \in Members : voice[m] = LivingRoom

\* ---------------------------------------------------------------- C18
\* C18.  on_voice_state_update sends nothing itself.  Every notification is
\* the answer to the one send() of one firing of a debounce check whose
\* member is in the target channel at the instant it fires, and the check
\* fires no earlier than debounce_period after the qualifying transition
\* that scheduled it (the check's run_at is the time of the transition plus
\* debounce_period).  So, counted over the run: notifications sent <=
\* checks fired <= qualifying transitions.  nextJob counts the checks
\* scheduled, one per qualifying transition; the text channel starts empty
\* and nothing of a stranger is ever deleted (C7), so the messages created
\* that are not a stranger's (here nobody else writes) are the
\* notifications.
Scheduled == nextJob
Fired == nextJob - Cardinality(jobs)
Sent == nextMsg - Cardinality({ m \in msgs : m.author = Stranger })
C18_NotificationsComeFromFiredChecks ==
    /\ [](Sent + Cardinality(sending) <= Fired /\ Fired <= Scheduled)
    /\ [][ /\ (last'.op = "voice")
              => msgs' = msgs /\ nextMsg' = nextMsg /\ sending' = sending
           /\ \A k \in jobs' \ jobs :
                 /\ last'.op = "voice"
                 /\ k.run_at = now + cfg.debounce_period
           /\ \A c \in sending' \ sending :
                 /\ last'.op = "check"
                 /\ c = SendOf(last')
                 /\ c.job \in jobs \ jobs'
                 /\ voice[c.job.member] = c.job.channel
                 /\ now >= c.job.run_at
           /\ \A n \in msgs' \ msgs :
                 n.author = Bot
                    => /\ last'.op = "send"
                       /\ SendOf(last') \in sending \ sending'
                       /\ msgs' = msgs \cup {n}
                       /\ n.created_at = now
                       /\ n.created_at >= last'.job.run_at ]_vars

\* Two checks have fired, and the send of the second has brought the only
\* notification.
C18_Witness ==
    /\ last.op = "send"
    /\ last.error = "none"
    /\ sending = {}
    /\ Sent = 1
    /\ Fired = 2
    /\ Scheduled = 2

\* ---------------------------------------------------------------- C19
\* C19.  A debounce check looks at the membership at the instant it fires
\* and at nothing else: with the text channel resolving it begins a send()
\* exactly if its member is in the target channel then, and the send, if
\* the gateway accepts it, brings the notification.  So a member who joined
\* alone, left and is back in the channel when the check fires (also by a
\* rejoin that did not itself qualify) gets the notification sent.
C19_PresenceAtFiringDecides ==
    [][ /\ (last'.op = "check" /\ last'.error = "none")
           => /\ msgs' = msgs
              /\ (voice[last'.job.member] # last'.job.channel)
                    => sending' = sending
              /\ (voice[last'.job.member] = last'.job.channel)
                    => /\ SendOf(last') \notin sending
                       /\ sending' = sending \cup {SendOf(last')}
        /\ (last'.op = "send" /\ last'.error = "none")
           => \E n \in msgs' \ msgs :
                 /\ msgs' = msgs \cup {n}
                 /\ n.author = Bot
                 /\ n.text = NotificationText
                 /\ n.created_at = now ]_vars

\* The member left after the check was scheduled and came back by a join
\* that scheduled no check (somebody else was in the living room); the
\* check, the only one ever scheduled, has fired and its send has brought
\* the notification.
C19_Witness ==
    /\ last.op = "send"
    /\ last.left
    /\ last.error = "none"
    /\ nextJob = 1
    /\ \E n \in msgs : n.author = Bot /\ n.created_at = now

\* ---------------------------------------------------------------- C20
\* C20.  A delete() that fails ends the pass: the error comes out of the
\* pass, which takes no further step; the message it failed on stays, no
\* message after it in scan order (oldest first) has been evaluated or
\* deleted, and the messages the pass had deleted before stay deleted.
C20_FailedDeletionAbortsPass ==
    [][ /\ (gc.pc = "delete" /\ last'.op = "gc" /\ gc.cur \cap msgs' # {})
           => last'.done /\ last'.failed = gc.cur
        /\ (last'.op = "gc" /\ last'.failed # {})
           => /\ last'.done
              /\ last'.error = "HTTPException"
              /\ gc' = Idle
              /\ msgs' = msgs
              /\ \A f \in last'.failed :
                    /\ f \in msgs'
                    /\ f \in last'.fetched
                    /\ \A m \in last'.fetched : m.id <= f.id
                    /\ \A r \in last'.removed : r.id < f.id
              /\ last'.removed \cap msgs' = {} ]_vars

\* A deletion has failed, and a deletable message behind it, inside the
\* window and within the scan cap, has not been evaluated and is still in
\* the channel.
C20_Witness ==
    /\ PassEnded
    /\ last.error = "HTTPException"
    /\ \E f \in last.failed :
          \E m \in msgs \ last.fetched :
             /\ m.id > f.id
             /\ m \in last.alone
             /\ m.created_at < last.cutoff

====
